---------------------------- MODULE Spec2Model ----------------------------
(***************************************************************************)
(* State-machine model of the habit API of SPA_habits (habits/views.py)    *)
(* and of the routing table of the users application (users/urls.py).      *)
(*                                                                         *)
(* The registered users are a fixed set (the user table is not modelled).  *)
(* The state is the Habit table, the primary-key sequence and the last     *)
(* request/response pair.  Every view is one action that runs the whole    *)
(* request: authentication and permission check, queryset scoping, filter  *)
(* backends and pagination (lists), object lookup, serializer selection,   *)
(* validation and the write.                                               *)
(***************************************************************************)
EXTENDS Integers, FiniteSets

(* ------------------------------ bounds --------------------------------- *)
NumUsers == 2
MaxHabits == 2
MaxPage == 2

\* page_size of habits.paginators.HabitPaginator
PageSize == 2

Users == 1..NumUsers
\* request.user of a request that carries no valid token (AnonymousUser);
\* also the value of an owner field that is not supplied
NoUser == 0
HabitIds == 1..MaxHabits
NoPk == 0

(* --------------------------- request values ---------------------------- *)
\* What request.data.get('is_pleasant_habit') can hold: the key is absent
\* (get returns None), a JSON boolean, or the text of a form-encoded field.
RawValues == {"absent", "json_true", "json_false", "form_true", "form_false"}

\* Python truthiness of request.data.get('is_pleasant_habit'): None and
\* False are falsy, True and every non-empty string are truthy.
Truthy(raw) == raw \in {"json_true", "form_true", "form_false"}

\* The boolean the field denotes (what a BooleanField parses it to).
FieldIsTrue(raw) == raw \in {"json_true", "form_true"}

\* A request body: the flag that selects the serializer, the visibility
\* flag, the owner field, and the remaining domain fields, which the chosen
\* serializer either accepts ("ok") or rejects ("bad").
RequestData == [is_pleasant_habit : RawValues,
                is_published : BOOLEAN,
                user : Users \cup {NoUser},
                fields : {"ok", "bad"}]
NoData == [is_pleasant_habit |-> "absent", is_published |-> FALSE,
           user |-> NoUser, fields |-> "ok"]

\* Query parameters of a list request: the is_published equality filter of
\* DjangoFilterBackend and the page number.  Results are ordered by id.
QueryParams == [is_published : {"any", "true", "false"}, page : 1..MaxPage]
NoQuery == [is_published |-> "any", page |-> 1]

\* The route names of users/urls.py.
UserViews == {"users_create", "users_list", "users_get", "users_update",
              "users_delete", "token_obtain_pair", "token_refresh"}

\* Bodies that vary the visibility flag and the validity of the body.
AccessBodies == {d \in RequestData : d.is_pleasant_habit = "absent" /\ d.user = NoUser}
\* Bodies that vary the owner field.
OwnerBodies == {d \in RequestData : /\ d.is_pleasant_habit = "absent"
                                    /\ d.fields = "ok" /\ ~d.is_published}
\* Bodies that vary the serializer flag.
SerializerBodies == {d \in RequestData : /\ d.user = NoUser /\ ~d.is_published}

VARIABLES habits, nextId, req, resp
vars == <<habits, nextId, req, resp>>

Row(h, i) == [id |-> i, user |-> h[i].user, is_published |-> h[i].is_published]
Rows(h, S) == {Row(h, i) : i \in S}

Response(status, body, ser, handled) ==
    [status |-> status, body |-> body, serializer_class |-> ser, handled |-> handled]
\* Status of a request refused for want of credentials (the configured
\* authentication scheme sends a WWW-Authenticate header, so 401 not 403).
NotAuthenticatedStatus == 401
Unauthorized == Response(NotAuthenticatedStatus, {}, "none", FALSE)
NotFound == Response(404, {}, "none", TRUE)


(* --------------------------- authentication ---------------------------- *)
Request(view, auth, user, pk, data, query) ==
    [view |-> view, auth |-> auth, user |-> user, pk |-> pk, data |-> data, query |-> query]

\* The (token, request.user) pairs authentication can produce.
Credentials == {<<"none", NoUser>>, <<"invalid", NoUser>>} \cup {<<"valid", u>> : u \in Users}

HabitCreateAPIView_permission_classes == {"IsAuthenticated"}
HabitListAPIView_permission_classes == {"IsAuthenticated"}
HabitPublicListAPIView_permission_classes == {"IsAuthenticated"}
HabitRetrieveAPIView_permission_classes == {"IsAuthenticated"}
HabitUpdateAPIView_permission_classes == {"IsAuthenticated"}
\* The view without its permission_classes line (the framework default).
HabitDestroyAPIView_permission_classes_default == {}

HabitDestroyAPIView_permission_classes == {"IsAuthenticated"}

\* rest_framework.permissions.IsAuthenticated.has_permission, as
\* APIView.check_permissions applies it before the handler method runs.
check_permissions(permission_classes, r) ==
    "IsAuthenticated" \in permission_classes => r.auth = "valid"

(* ---------------------------- query scopes ----------------------------- *)
\* Habit.objects.all() in place of the owner filter.
HabitListAPIView_get_queryset_all(h, u) == DOMAIN h

HabitListAPIView_get_queryset(h, u) == {i \in DOMAIN h : h[i].user = u}

HabitPublicListAPIView_queryset(h) == {i \in DOMAIN h : h[i].is_published}

\* The queryset without its filter, and with the owner filter only.
HabitRetrieveAPIView_get_queryset_all(h, u) == DOMAIN h
HabitRetrieveAPIView_get_queryset_mine(h, u) == {i \in DOMAIN h : h[i].user = u}

HabitRetrieveAPIView_get_queryset(h, u) ==
    {i \in DOMAIN h : h[i].is_published \/ h[i].user = u}

\* The retrieve view's filter in place of the owner filter.
HabitUpdateAPIView_get_queryset_public(h, u) ==
    {i \in DOMAIN h : h[i].is_published \/ h[i].user = u}

HabitUpdateAPIView_get_queryset(h, u) == {i \in DOMAIN h : h[i].user = u}

\* Habit.objects.all() in place of the owner filter.
HabitDestroyAPIView_get_queryset_all(h, u) == DOMAIN h

HabitDestroyAPIView_get_queryset(h, u) == {i \in DOMAIN h : h[i].user = u}

(* ----------------------- filtering and pagination ---------------------- *)
\* filter_backends: the is_published equality filter that
\* filterset_fields = '__all__' exposes on both list views.  The search and
\* ordering parameters are not exercised; rows are taken in id order.
filter_queryset(h, qs, q) ==
    {i \in qs : \/ q.is_published = "any"
                \/ q.is_published = "true" /\ h[i].is_published
                \/ q.is_published = "false" /\ ~h[i].is_published}

\* Position (from 1) of i in qs ordered by id.
Position(qs, i) == Cardinality({j \in qs : j <= i})

\* Number of pages of a result of n rows; an empty result has one page.
NumPages(n) == IF n = 0 THEN 1 ELSE (n + PageSize - 1) \div PageSize

\* The rows of page q.page of the ordered result.
paginate_queryset(qs, q) ==
    {i \in qs : /\ Position(qs, i) > (q.page - 1) * PageSize
                /\ Position(qs, i) <= q.page * PageSize}

\* ListModelMixin.list: filter, paginate, serialize.
ListResponse(h, qs, q) ==
    LET found == filter_queryset(h, qs, q) IN
    IF q.page > NumPages(Cardinality(found))
    THEN NotFound
    ELSE Response(200, Rows(h, paginate_queryset(found, q)),
                  "HabitListRetrieveSerializer", TRUE)

(* ------------------------- serializer selection ------------------------ *)
HabitCreateAPIView_get_serializer_class(data) ==
    IF Truthy(data.is_pleasant_habit)
    THEN "HabitUsefulCreateUpdateSerializer"
    ELSE "HabitPleasantCreateUpdateSerializer"

HabitUpdateAPIView_get_serializer_class(data) ==
    IF Truthy(data.is_pleasant_habit)
    THEN "HabitUsefulCreateUpdateSerializer"
    ELSE "HabitPleasantCreateUpdateSerializer"

\* serializer.is_valid(): the verdict of the chosen serializer on the body.
is_valid(data) == data.fields = "ok"

\* serializer.validated_data: the owner is part of it only when the
\* serializer declares a writable user field and the body supplies one.
validated_data(data, writable) ==
    [is_published |-> data.is_published,
     user |-> IF writable THEN data.user ELSE NoUser]

\* serializer.save(**kwargs): keyword arguments override validated data.
SerializerSave(validated, kw_user) ==
    [user |-> IF kw_user # NoUser THEN kw_user ELSE validated.user,
     is_published |-> validated.is_published]


(* ------------------------------- handlers ------------------------------ *)
\* serializer.save() without the user keyword.
HabitCreateAPIView_perform_create_plain(validated, r) == SerializerSave(validated, NoUser)

\* perform_create: serializer.save(user=self.request.user); the value is
\* the row that is inserted.
HabitCreateAPIView_perform_create(validated, r) == SerializerSave(validated, r.user)

\* UpdateModelMixin.perform_update: serializer.save() with no keyword
\* arguments; fields absent from the validated data keep their value.
HabitUpdateAPIView_perform_update(instance, validated) ==
    [user |-> IF validated.user # NoUser THEN validated.user ELSE instance.user,
     is_published |-> validated.is_published]

Insert(h, i, row) == [j \in DOMAIN h \cup {i} |-> IF j = i THEN row ELSE h[j]]
Delete(h, i) == [j \in DOMAIN h \ {i} |-> h[j]]

\* CreateModelMixin.create: validate, perform_create, answer 201.
CreateStore(h, nid, r, writable) ==
    IF is_valid(r.data)
    THEN Insert(h, nid, HabitCreateAPIView_perform_create(validated_data(r.data, writable), r))
    ELSE h

CreateResponse(h, nid, r, writable) ==
    LET ser == HabitCreateAPIView_get_serializer_class(r.data) IN
    IF is_valid(r.data)
    THEN Response(201, {Row(CreateStore(h, nid, r, writable), nid)}, ser, TRUE)
    ELSE Response(400, {}, ser, TRUE)

\* RetrieveModelMixin.retrieve: get_object (404 outside the queryset).
RetrieveResponse(h, r) ==
    IF r.pk \in HabitRetrieveAPIView_get_queryset(h, r.user)
    THEN Response(200, {Row(h, r.pk)}, "HabitListRetrieveSerializer", TRUE)
    ELSE NotFound

\* An update that saves without asking the serializer's verdict.
UpdateStore_unvalidated(h, r, writable) ==
    IF r.pk \in {i \in DOMAIN h : h[i].user = r.user}
    THEN [j \in DOMAIN h |->
            IF j = r.pk
            THEN [user |-> h[j].user, is_published |-> r.data.is_published]
            ELSE h[j]]
    ELSE h

\* UpdateModelMixin.update: get_object, then validate, then perform_update.
UpdateStore(h, r, writable) ==
    IF r.pk \in HabitUpdateAPIView_get_queryset(h, r.user) /\ is_valid(r.data)
    THEN Insert(h, r.pk,
                HabitUpdateAPIView_perform_update(h[r.pk], validated_data(r.data, writable)))
    ELSE h

UpdateResponse(h, r, writable) ==
    LET ser == HabitUpdateAPIView_get_serializer_class(r.data) IN
    IF r.pk \notin HabitUpdateAPIView_get_queryset(h, r.user) THEN NotFound
    ELSE IF ~is_valid(r.data) THEN Response(400, {}, ser, TRUE)
    ELSE Response(200, {Row(UpdateStore(h, r, writable), r.pk)}, ser, TRUE)

\* DestroyModelMixin.destroy: get_object, then delete, answer 204.
DestroyStore(h, r) ==
    IF r.pk \in HabitDestroyAPIView_get_queryset(h, r.user) THEN Delete(h, r.pk) ELSE h

DestroyResponse(h, r) ==
    IF r.pk \in HabitDestroyAPIView_get_queryset(h, r.user)
    THEN Response(204, {}, "none", TRUE)
    ELSE NotFound

(* ---------------------------- users/urls.py ---------------------------- *)
\* Permission classes of the views the users routes name.  The token views
\* are the library's (no permission classes); the user views live in
\* users/views.py.
users_permission_classes(name) ==
    IF name \in {"users_create", "token_obtain_pair", "token_refresh"}
    THEN {}
    ELSE {"IsAuthenticated"}

(* ------------------------------- actions ------------------------------- *)
\* An unauthenticated request is refused before its body or query string
\* is read, so it carries the default ones.
BodiesOf(c, Bodies) == IF c[1] = "valid" THEN Bodies ELSE {NoData}
QueriesOf(c, Queries) == IF c[1] = "valid" THEN Queries ELSE {NoQuery}
\* Whether the serializer declares the owner as a writable field matters
\* only for a body that supplies one.
WritableOf(d) == IF d.user = NoUser THEN {FALSE} ELSE BOOLEAN

Init ==
    /\ habits = [i \in {} |-> NoData]
    /\ nextId = 1
    /\ req = Request("none", "none", NoUser, NoPk, NoData, NoQuery)
    /\ resp = Response(0, {}, "none", FALSE)

\* POST habits/create/
HabitCreate(Bodies) ==
    \E c \in Credentials : \E d \in BodiesOf(c, Bodies) : \E writable \in WritableOf(d) :
        LET r == Request("HabitCreateAPIView", c[1], c[2], NoPk, d, NoQuery) IN
        /\ nextId <= MaxHabits
        /\ req' = r
        /\ IF ~check_permissions(HabitCreateAPIView_permission_classes, r)
           THEN resp' = Unauthorized /\ UNCHANGED <<habits, nextId>>
           ELSE /\ resp' = CreateResponse(habits, nextId, r, writable)
                /\ habits' = CreateStore(habits, nextId, r, writable)
                /\ nextId' = IF is_valid(d) THEN nextId + 1 ELSE nextId

\* GET habits/
HabitList(Queries) ==
    \E c \in Credentials : \E q \in QueriesOf(c, Queries) :
        LET r == Request("HabitListAPIView", c[1], c[2], NoPk, NoData, q) IN
        /\ req' = r
        /\ resp' = IF ~check_permissions(HabitListAPIView_permission_classes, r)
                   THEN Unauthorized
                   ELSE ListResponse(habits, HabitListAPIView_get_queryset(habits, r.user), q)
        /\ UNCHANGED <<habits, nextId>>

\* GET habits/public/
HabitPublicList(Queries) ==
    \E c \in Credentials : \E q \in QueriesOf(c, Queries) :
        LET r == Request("HabitPublicListAPIView", c[1], c[2], NoPk, NoData, q) IN
        /\ req' = r
        /\ resp' = IF ~check_permissions(HabitPublicListAPIView_permission_classes, r)
                   THEN Unauthorized
                   ELSE ListResponse(habits, HabitPublicListAPIView_queryset(habits), q)
        /\ UNCHANGED <<habits, nextId>>

\* GET habits/<pk>/
HabitRetrieve ==
    \E c \in Credentials, pk \in HabitIds :
        LET r == Request("HabitRetrieveAPIView", c[1], c[2], pk, NoData, NoQuery) IN
        /\ req' = r
        /\ resp' = IF ~check_permissions(HabitRetrieveAPIView_permission_classes, r)
                   THEN Unauthorized
                   ELSE RetrieveResponse(habits, r)
        /\ UNCHANGED <<habits, nextId>>

\* PUT/PATCH habits/update/<pk>/
HabitUpdate(Bodies) ==
    \E c \in Credentials, pk \in HabitIds :
      \E d \in BodiesOf(c, Bodies) : \E writable \in WritableOf(d) :
        LET r == Request("HabitUpdateAPIView", c[1], c[2], pk, d, NoQuery) IN
        /\ req' = r
        /\ IF ~check_permissions(HabitUpdateAPIView_permission_classes, r)
           THEN resp' = Unauthorized /\ UNCHANGED habits
           ELSE /\ resp' = UpdateResponse(habits, r, writable)
                /\ habits' = UpdateStore(habits, r, writable)
        /\ UNCHANGED nextId

\* DELETE habits/delete/<pk>/
HabitDestroy ==
    \E c \in Credentials, pk \in HabitIds :
        LET r == Request("HabitDestroyAPIView", c[1], c[2], pk, NoData, NoQuery) IN
        /\ req' = r
        /\ IF ~check_permissions(HabitDestroyAPIView_permission_classes, r)
           THEN resp' = Unauthorized /\ UNCHANGED habits
           ELSE /\ resp' = DestroyResponse(habits, r)
                /\ habits' = DestroyStore(habits, r)
        /\ UNCHANGED nextId

\* Any request to a route of users/urls.py; the user table is outside the
\* model, so a handler that runs answers without touching the state.
UsersRequest ==
    \E name \in UserViews, c \in Credentials :
        LET r == Request(name, c[1], c[2], NoPk, NoData, NoQuery) IN
        \* what a malformed token does to users_create depends on the
        \* project settings, so that request is left out
        /\ name = "users_create" => c[1] # "invalid"
        /\ req' = r
        /\ resp' = IF ~check_permissions(users_permission_classes(name), r)
                   THEN Unauthorized
                   ELSE Response(200, {}, "none", TRUE)
        /\ UNCHANGED <<habits, nextId>>

\* Requests that vary visibility, validity, filters and pages.
Next ==
    \/ HabitCreate(AccessBodies)
    \/ HabitList(QueryParams)
    \/ HabitPublicList(QueryParams)
    \/ HabitRetrieve
    \/ HabitUpdate(AccessBodies)
    \/ HabitDestroy

Spec == Init /\ [][Next]_vars

\* Requests that vary the owner field of the body.
NextOwner ==
    \/ HabitCreate(OwnerBodies)
    \/ HabitList({NoQuery})
    \/ HabitPublicList({NoQuery})
    \/ HabitRetrieve
    \/ HabitUpdate(OwnerBodies)
    \/ HabitDestroy

SpecOwner == Init /\ [][NextOwner]_vars

\* Requests that vary the serializer flag, and the users routes.
NextRoutes ==
    \/ HabitCreate(SerializerBodies)
    \/ HabitList({NoQuery})
    \/ HabitPublicList({NoQuery})
    \/ HabitRetrieve
    \/ HabitUpdate(SerializerBodies)
    \/ HabitDestroy
    \/ UsersRequest

SpecRoutes == Init /\ [][NextRoutes]_vars


(* ======================= properties of the views ======================= *)
Authenticated(r) == r.auth = "valid"
ItemViews == {"HabitRetrieveAPIView", "HabitUpdateAPIView", "HabitDestroyAPIView"}
WriteViews == {"HabitUpdateAPIView", "HabitDestroyAPIView"}
Ids(body) == {row.id : row \in body}

\* C1: a retrieve, update or delete request for an unpublished habit made by
\* an authenticated user who is not its owner is answered NotFound (404).
C1_UnpublishedHiddenFromOthers ==
    [][(/\ req'.view \in ItemViews
        /\ Authenticated(req')
        /\ req'.pk \in DOMAIN habits
        /\ ~habits[req'.pk].is_published
        /\ habits[req'.pk].user # req'.user)
       => resp' = NotFound]_vars

C1_Witness ==
    /\ req.view = "HabitUpdateAPIView"
    /\ Authenticated(req)
    /\ req.pk \in DOMAIN habits
    /\ ~habits[req.pk].is_published
    /\ habits[req.pk].user # req.user
    /\ resp.status = 404

\* C2: a published habit is returned to every authenticated user who
\* retrieves it; an update or delete of it by a user who is not its owner is
\* answered NotFound, and an update or delete that succeeds is the owner's.
C2_PublishedReadableOwnerWritable ==
    [][(/\ req'.view \in ItemViews
        /\ Authenticated(req')
        /\ req'.pk \in DOMAIN habits
        /\ habits[req'.pk].is_published)
       => /\ req'.view = "HabitRetrieveAPIView"
             => resp'.status = 200 /\ resp'.body = {Row(habits, req'.pk)}
          /\ (req'.view \in WriteViews /\ habits[req'.pk].user # req'.user)
             => resp' = NotFound
          /\ (req'.view \in WriteViews /\ resp'.status \in {200, 204})
             => habits[req'.pk].user = req'.user]_vars

C2_Witness ==
    /\ req.view = "HabitRetrieveAPIView"
    /\ Authenticated(req)
    /\ req.pk \in DOMAIN habits
    /\ habits[req.pk].is_published
    /\ habits[req.pk].user # req.user
    /\ resp.status = 200
    /\ resp.body = {Row(habits, req.pk)}

\* C3: a successful create by user U stores one new habit whose owner is U,
\* whatever owner value (another user's id, or none) the body carries.
C3_CreateForcesOwner ==
    [][(req'.view = "HabitCreateAPIView" /\ resp'.status = 201)
       => /\ DOMAIN habits' = DOMAIN habits \cup {nextId}
          /\ nextId \notin DOMAIN habits
          /\ habits'[nextId].user = req'.user
          /\ \A i \in DOMAIN habits : habits'[i] = habits[i]]_vars

C3_Witness ==
    /\ req.view = "HabitCreateAPIView"
    /\ resp.status = 201
    /\ req.data.user \in Users \ {req.user}
    /\ \A row \in resp.body : row.id \in DOMAIN habits /\ habits[row.id].user = req.user
    /\ resp.body # {}


ListViews == {"HabitListAPIView", "HabitPublicListAPIView"}
Min(a, b) == IF a < b THEN a ELSE b
Mine(u) == {i \in DOMAIN habits : habits[i].user = u}
Published == {i \in DOMAIN habits : habits[i].is_published}
\* Whether habit i passes the is_published filter of query q.
Matches(i, q) ==
    \/ q.is_published = "any"
    \/ q.is_published = "true" /\ habits[i].is_published
    \/ q.is_published = "false" /\ ~habits[i].is_published

OpenRoutes == {"users_create", "token_obtain_pair", "token_refresh"}

\* C5: a request without a valid bearer token to any endpoint other than
\* create-user, token-obtain and token-refresh is answered 401 before the
\* handler runs (nothing is stored); those three endpoints run their handler
\* for a request that carries no token.
C5_AuthenticationGate ==
    [][/\ (~Authenticated(req') /\ req'.view \notin OpenRoutes)
          => /\ resp'.status = 401
             /\ ~resp'.handled
             /\ habits' = habits
             /\ nextId' = nextId
       /\ (req'.view \in OpenRoutes /\ req'.auth = "none") => resp'.handled]_vars

C5_Witness ==
    /\ req.view = "HabitDestroyAPIView"
    /\ req.auth = "none"
    /\ req.pk \in DOMAIN habits
    /\ resp.status = 401

\* C6 as stated: create and update use the useful-habit serializer when the
\* is_pleasant_habit field is true and the pleasant-habit serializer when it
\* is false or absent, and make the same choice for the same value.
C6_SerializerFollowsFlag ==
    /\ (req.view \in {"HabitCreateAPIView", "HabitUpdateAPIView"}
        /\ resp.serializer_class # "none")
       => resp.serializer_class =
              IF FieldIsTrue(req.data.is_pleasant_habit)
              THEN "HabitUsefulCreateUpdateSerializer"
              ELSE "HabitPleasantCreateUpdateSerializer"
    /\ \A d \in RequestData :
           HabitCreateAPIView_get_serializer_class(d) = HabitUpdateAPIView_get_serializer_class(d)

\* The answer to an item request r in the world with store h.
ItemResponse(h, r, writable) ==
    CASE r.view = "HabitRetrieveAPIView" -> RetrieveResponse(h, r)
      [] r.view = "HabitUpdateAPIView" -> UpdateResponse(h, r, writable)
      [] r.view = "HabitDestroyAPIView" -> DestroyResponse(h, r)

\* Habit i exists and is out of requester u's reach through view v.
Hidden(v, u, i) ==
    /\ i \in DOMAIN habits
    /\ habits[i].user # u
    /\ v = "HabitRetrieveAPIView" => ~habits[i].is_published

\* C7: a retrieve, update or delete of a habit that exists but is hidden from
\* the requester gets the very response it gets in the world where that
\* habit does not exist: the same NotFound, never a Forbidden.
C7_NoExistenceLeak ==
    /\ \A v \in ItemViews, u \in Users, i \in HabitIds, d \in AccessBodies, w \in BOOLEAN :
           LET r == Request(v, "valid", u, i, d, NoQuery) IN
           Hidden(v, u, i) =>
               /\ ItemResponse(habits, r, w) = ItemResponse(Delete(habits, i), r, w)
               /\ ItemResponse(habits, r, w).status = 404
    /\ (req.view \in ItemViews /\ Authenticated(req) /\ Hidden(req.view, req.user, req.pk))
       => /\ resp = NotFound
          /\ \A w \in BOOLEAN : resp = ItemResponse(Delete(habits, req.pk), req, w)
    /\ resp.status # 403

C7_Witness ==
    /\ req.view = "HabitDestroyAPIView"
    /\ Authenticated(req)
    /\ Hidden(req.view, req.user, req.pk)
    /\ habits[req.pk].is_published
    /\ resp.status = 404

\* C8: a habit request answered with an error (401, 404, 400) leaves the
\* habit store as it was, and so does every read request.
C8_ErrorsAndReadsChangeNothing ==
    [][/\ resp'.status \in {400, 401, 404} => (habits' = habits /\ nextId' = nextId)
       /\ req'.view \in ListViews \cup {"HabitRetrieveAPIView"}
          => (habits' = habits /\ nextId' = nextId)]_vars

C8_Witness ==
    /\ req.view = "HabitUpdateAPIView"
    /\ resp.status = 400
    /\ req.pk \in DOMAIN habits
    /\ habits[req.pk].is_published # req.data.is_published

\* What user u can reach one habit at a time.
Retrievable(u) ==
    {i \in HabitIds :
        RetrieveResponse(habits, Request("HabitRetrieveAPIView", "valid", u, i, NoData, NoQuery)).status = 200}
Updatable(u) ==
    {i \in HabitIds :
        UpdateResponse(habits, Request("HabitUpdateAPIView", "valid", u, i, NoData, NoQuery), FALSE).status = 200}
Deletable(u) ==
    {i \in HabitIds :
        DestroyResponse(habits, Request("HabitDestroyAPIView", "valid", u, i, NoData, NoQuery)).status = 204}

\* The ids a list request of u with query q returns.
Listed(view, u, q) ==
    LET scope == IF view = "HabitListAPIView"
                 THEN HabitListAPIView_get_queryset(habits, u)
                 ELSE HabitPublicListAPIView_queryset(habits)
        answer == ListResponse(habits, scope, q)
    IN IF answer.status = 200 THEN Ids(answer.body) ELSE {}

\* Everything u sees paging through a list without a filter.
ListedOnAllPages(view, u) ==
    UNION {Listed(view, u, [is_published |-> "any", page |-> p]) : p \in 1..MaxPage}

=============================================================================
